---- MODULE Spec2Model ----
(***************************************************************************)
(* Model of the chat panel of src/src/components/HelpBox.vue (HelpChatbox). *)
(*                                                                         *)
(* The component's data() fields are the variables.  Each method is an     *)
(* action; an async method is split at its await: the part up to the       *)
(* await issues the HTTP request (added to `requests`), the part after it  *)
(* runs when the request settles, with the settlement chosen by the        *)
(* remote side.  JavaScript runs one handler at a time, so each part is    *)
(* atomic; the $nextTick callback of toggleChat and the promise            *)
(* continuations run as microtasks before any other event and belong to    *)
(* the step that schedules them.                                           *)
(*                                                                         *)
(* Texts are sequences of tokens so that String.prototype.trim can be      *)
(* computed: a typed text is a sequence of characters, a fixed text of the *)
(* component is a one-token sequence.  Message timestamps are not          *)
(* modelled.  The methods are callable in every state, as they are from a  *)
(* test or a parent component, not only through the enabled controls of    *)
(* the template.                                                           *)
(***************************************************************************)
EXTENDS Integers, Sequences, FiniteSets, Bags, TLC

VARIABLES isOpen, currentMessage, isTyping, messages, messageIdCounter,
          sessionId, requests, lastCall

vars == <<isOpen, currentMessage, isTyping, messages, messageIdCounter,
          sessionId, requests, lastCall>>

\* the fields of data() (the component's own state)
dataVars == <<isOpen, currentMessage, isTyping, messages, messageIdCounter,
              sessionId>>

----------------------------------------------------------------------------
\* Bounds of the model

\* most HTTP requests in flight at once
MaxPending == 3
\* largest value the id counter may reach
MaxId == 5

\* what the user can type into the input: nothing, whitespace only, a word,
\* a word with whitespace before it, after it or around it, and two words
Inputs ==
  { <<>>, <<" ">>, <<" ", " ">>, <<"a">>, <<" ", "a">>, <<"a", " ">>,
    <<" ", "a", " ">>, <<"a", " ", "a">> }

\* the value mounted() generates for the session id
SessionIds == {"session_1"}

----------------------------------------------------------------------------
\* Fixed texts of the component

GreetingText == <<"Hello! I'm here to help you analyze your UAV flight data.">>
ApologyText == <<"I apologize, but I encountered an error processing your request.">>
SorryPrefix == <<"Sorry, I'm having trouble connecting to the analysis service.">>
ClearedText == <<"Chat history cleared! How can I help you analyze your flight data?">>
ClearErrorText == <<"Sorry, I couldn't clear the chat history. Please try again.">>
ContextText == <<"I can see you have flight data loaded.">>
DefaultStatusText == <<"Chat API returned error status">>
CannotConnectText == <<"Cannot connect to the backend service.">>
NoResponseText == <<"No response from server. Please check your connection.">>

----------------------------------------------------------------------------
\* String.prototype.trim

RECURSIVE trimStart(_)
trimStart(s) ==
  IF s = <<>> THEN s
  ELSE IF Head(s) = " " THEN trimStart(Tail(s)) ELSE s

RECURSIVE trimEnd(_)
trimEnd(s) ==
  IF s = <<>> THEN s
  ELSE IF s[Len(s)] = " " THEN trimEnd(SubSeq(s, 1, Len(s) - 1)) ELSE s

trim(s) == trimEnd(trimStart(s))

\* a || b on strings: the empty string is falsy
OrElse(a, b) == IF a = <<>> THEN b ELSE a

----------------------------------------------------------------------------
\* Settlements of the HTTP calls (chosen by the remote side and the network)

\* axios.post(/api/chat): resolved with a 2xx response, or rejected
ChatResolved ==
  [settled : {"resolved"}, status : {"success", "error"},
   response : {<<>>, <<"reply">>}, message : {<<>>, <<"detail">>}]

\* an axios rejection: error.code, error.response, error.request, error.message
Rejections ==
  { [settled |-> "rejected", code |-> "ECONNREFUSED", hasResponse |-> FALSE,
     hasRequest |-> TRUE, httpStatus |-> 0, detail |-> <<>>,
     message |-> <<"connect ECONNREFUSED">>],
    [settled |-> "rejected", code |-> "ERR_BAD_RESPONSE", hasResponse |-> TRUE,
     hasRequest |-> TRUE, httpStatus |-> 500, detail |-> <<"detail">>,
     message |-> <<"Request failed with status code 500">>],
    [settled |-> "rejected", code |-> "ECONNABORTED", hasResponse |-> FALSE,
     hasRequest |-> TRUE, httpStatus |-> 0, detail |-> <<>>,
     message |-> <<"timeout of 90000ms exceeded">>],
    [settled |-> "rejected", code |-> "none", hasResponse |-> FALSE,
     hasRequest |-> FALSE, httpStatus |-> 0, detail |-> <<>>,
     message |-> <<"setup failed">>] }

ChatSettlements == ChatResolved \cup Rejections

\* axios.post(/api/chat/clear)
ClearSettlements == {[settled |-> "resolved"]} \cup Rejections

\* axios.get(/api/chat/context): tables is available_tables.length
ContextSettlements ==
  [settled : {"resolved"}, status : {"success", "error"}, tables : {0, 2}]
    \cup Rejections

----------------------------------------------------------------------------
\* State after data() and mounted()

\* the welcome message of data()
Greeting == [id |-> 1, type |-> "bot", text |-> GreetingText]

Init ==
  /\ isOpen = FALSE
  /\ currentMessage = <<>>
  /\ isTyping = FALSE
  /\ messages = <<Greeting>>
  /\ messageIdCounter = 2
  /\ sessionId \in SessionIds
  /\ requests = EmptyBag
  /\ lastCall = [op |-> "mounted", settled |-> "none", status |-> "none"]

----------------------------------------------------------------------------
\* Helpers

\* requests is the bag of the HTTP requests in flight: they settle in any
\* order, whatever the order they were issued in
Issue(r) == requests (+) SetToBag({r})

Settle(r) == requests (-) SetToBag({r})

\* A handler that issues a request and can still advance the id counter n
\* times stays within the bounds of the model: every request in flight may
\* advance the counter once more when it settles.
WithinBounds(n) ==
  /\ BagCardinality(requests) < MaxPending
  /\ messageIdCounter + BagCardinality(requests) + n <= MaxId

\* lastCall records the handler that ran last and, for the part of an async
\* method after its await, how the awaited call settled and the status
\* field of the payload it resolved with
Called(op, s) ==
  lastCall' = [op |-> op, settled |-> s.settled,
               status |-> IF "status" \in DOMAIN s THEN s.status ELSE "none"]

Sync == [settled |-> "none"]

----------------------------------------------------------------------------
\* v-model on the input: the user edits the text

handleInput(s) ==
  /\ currentMessage' = s
  /\ UNCHANGED <<isOpen, isTyping, messages, messageIdCounter, sessionId, requests>>
  /\ Called("handleInput", Sync)

----------------------------------------------------------------------------
\* toggleChat, with the $nextTick callback that calls loadChatContext up to
\* its await

loadChatContext ==
  requests' = Issue([url |-> "/api/chat/context"])

\* mutation: the panel fetches the context only while the log still holds
\* just its first message
toggleChat_FetchWhenFresh ==
  /\ isOpen' = ~isOpen
  /\ IF isOpen' /\ Len(messages) = 1 THEN loadChatContext ELSE UNCHANGED requests
  /\ UNCHANGED <<currentMessage, isTyping, messages, messageIdCounter, sessionId>>

\* mutation: closing the panel aborts the send in flight
toggleChat_CancelsOnClose ==
  /\ isOpen' = ~isOpen
  /\ IF isOpen'
       THEN loadChatContext /\ UNCHANGED isTyping
       ELSE /\ requests' = [r \in {x \in BagToSet(requests) : x.url # "/api/chat"}
                               |-> CopiesIn(r, requests)]
            /\ isTyping' = FALSE
  /\ UNCHANGED <<currentMessage, messages, messageIdCounter, sessionId>>

toggleChat ==
  /\ isOpen' = ~isOpen
  /\ IF isOpen' THEN loadChatContext ELSE UNCHANGED requests
  /\ UNCHANGED <<currentMessage, isTyping, messages, messageIdCounter, sessionId>>

\* a click on the help button or on the close button
ClickToggle ==
  /\ isOpen \/ WithinBounds(1)
  /\ toggleChat
  /\ Called("toggleChat", Sync)

\* the keydown listener of mounted()
KeydownEscape ==
  /\ isOpen
  /\ toggleChat
  /\ Called("keydownEscape", Sync)

----------------------------------------------------------------------------
\* sendMessage up to its await

\* mutation: the early return forgets the typing flag
sendReturnsEarly_IgnoresTyping == trim(currentMessage) = <<>>

\* mutation: the early return tests the raw text, not the trimmed text
sendReturnsEarly_NoTrim == currentMessage = <<>> \/ isTyping

\* mutation: the early return also rejects a call made while the panel is closed
sendReturnsEarly_ClosedToo == trim(currentMessage) = <<>> \/ isTyping \/ ~isOpen

\* the early return of sendMessage
sendReturnsEarly == trim(currentMessage) = <<>> \/ isTyping

\* mutation: the id is taken after the increment (++counter for counter++)
userMessage_PreIncrement ==
  [id |-> messageIdCounter + 1, type |-> "user", text |-> trim(currentMessage)]

userMessage ==
  [id |-> messageIdCounter, type |-> "user", text |-> trim(currentMessage)]

\* mutation: the typing flag is not raised before the await
sendMessage_TypingNotRaised ==
  /\ sendReturnsEarly \/ WithinBounds(2)
  /\ IF sendReturnsEarly
       THEN UNCHANGED <<currentMessage, isTyping, messages, messageIdCounter, requests>>
       ELSE /\ messageIdCounter' = messageIdCounter + 1
            /\ messages' = Append(messages, userMessage)
            /\ currentMessage' = <<>>
            /\ UNCHANGED isTyping
            /\ requests' = Issue([url |-> "/api/chat", message |-> trim(currentMessage),
                   session_id |-> sessionId])
  /\ UNCHANGED <<isOpen, sessionId>>
  /\ Called("sendMessage", Sync)

\* mutation: the user message is pushed after the await, not before it
sendMessage_AppendsAfterAwait ==
  /\ sendReturnsEarly \/ WithinBounds(2)
  /\ IF sendReturnsEarly
       THEN UNCHANGED <<currentMessage, isTyping, messages, messageIdCounter, requests>>
       ELSE /\ UNCHANGED <<messages, messageIdCounter>>
            /\ currentMessage' = <<>>
            /\ isTyping' = TRUE
            /\ requests' = Issue([url |-> "/api/chat", message |-> trim(currentMessage),
                   session_id |-> sessionId])
  /\ UNCHANGED <<isOpen, sessionId>>
  /\ Called("sendMessage", Sync)

sendMessage ==
  /\ sendReturnsEarly \/ WithinBounds(2)
  /\ IF sendReturnsEarly
       THEN UNCHANGED <<currentMessage, isTyping, messages, messageIdCounter, requests>>
       ELSE LET messageToSend == trim(currentMessage)
            IN /\ messageIdCounter' = messageIdCounter + 1
               /\ messages' = Append(messages, userMessage)
               /\ currentMessage' = <<>>
               /\ isTyping' = TRUE
               /\ requests' = Issue([url |-> "/api/chat", message |-> messageToSend,
                      session_id |-> sessionId])
  /\ UNCHANGED <<isOpen, sessionId>>
  /\ Called("sendMessage", Sync)

----------------------------------------------------------------------------
\* callChatAPI after its await: the value returned, or the Error thrown

\* the error that reaches the catch block of callChatAPI: the axios
\* rejection, or the Error thrown inside the try block for a payload whose
\* status is not "success" (a plain Error: no code, response or request)
caught(s) ==
  IF s.settled = "resolved"
    THEN [code |-> "none", hasResponse |-> FALSE, hasRequest |-> FALSE,
          httpStatus |-> 0, detail |-> <<>>,
          message |-> OrElse(s.message, DefaultStatusText)]
    ELSE s

\* the catch block of callChatAPI; kind names the branch taken
rethrown(error) ==
  IF error.code = "ECONNREFUSED"
    THEN [ok |-> FALSE, kind |-> "ServiceUnavailable", message |-> CannotConnectText]
  ELSE IF error.hasResponse
    THEN [ok |-> FALSE, kind |-> "ServerError",
          message |-> <<"Server error:", ToString(error.httpStatus)>> \o error.detail]
  ELSE IF error.hasRequest
    THEN [ok |-> FALSE, kind |-> "NoResponse", message |-> NoResponseText]
  ELSE [ok |-> FALSE, kind |-> "RequestError",
        message |-> <<"Request error:">> \o error.message]

callChatAPI(s) ==
  IF s.settled = "resolved" /\ s.status = "success"
    THEN [ok |-> TRUE, kind |-> "none", message |-> s.response]
    ELSE rethrown(caught(s))

----------------------------------------------------------------------------
\* sendMessage after its await: try / catch / finally

\* the message of the try block, from the value callChatAPI returned
botMessage(response) ==
  [id |-> messageIdCounter, type |-> "bot",
   text |-> OrElse(response.message, ApologyText)]

\* the message of the catch block, from the Error callChatAPI threw
errorMessage(error) ==
  [id |-> messageIdCounter, type |-> "bot", text |-> SorryPrefix \o error.message]

\* mutation: the typing flag is lowered at the end of the try block, not in
\* a finally block
sendMessageResume_NoFinally(r, s) ==
  /\ r.url = "/api/chat"
  /\ LET response == callChatAPI(s)
     IN /\ messages' = Append(messages,
              IF response.ok THEN botMessage(response) ELSE errorMessage(response))
        /\ isTyping' = IF response.ok THEN FALSE ELSE isTyping
  /\ messageIdCounter' = messageIdCounter + 1
  /\ requests' = Settle(r)
  /\ UNCHANGED <<isOpen, currentMessage, sessionId>>
  /\ Called("sendMessageResume", s)

\* mutation: no catch block; the Error of callChatAPI leaves sendMessage
\* through the finally block
sendMessageResume_Uncaught(r, s) ==
  /\ r.url = "/api/chat"
  /\ LET response == callChatAPI(s)
     IN IF response.ok
          THEN /\ messages' = Append(messages, botMessage(response))
               /\ messageIdCounter' = messageIdCounter + 1
          ELSE UNCHANGED <<messages, messageIdCounter>>
  /\ isTyping' = FALSE
  /\ requests' = Settle(r)
  /\ UNCHANGED <<isOpen, currentMessage, sessionId>>
  /\ Called("sendMessageResume", s)

\* mutation: the bot message overwrites the last message of the log
sendMessageResume_ReplacesLast(r, s) ==
  /\ r.url = "/api/chat"
  /\ LET response == callChatAPI(s)
     IN /\ messages' = [messages EXCEPT ![Len(messages)] =
              IF response.ok THEN botMessage(response) ELSE errorMessage(response)]
        /\ messageIdCounter' = messageIdCounter + 1
  /\ isTyping' = FALSE
  /\ requests' = Settle(r)
  /\ UNCHANGED <<isOpen, currentMessage, sessionId>>
  /\ Called("sendMessageResume", s)

sendMessageResume(r, s) ==
  /\ r.url = "/api/chat"
  /\ LET response == callChatAPI(s)
     IN /\ messages' = Append(messages,
              IF response.ok THEN botMessage(response) ELSE errorMessage(response))
        /\ messageIdCounter' = messageIdCounter + 1
  /\ isTyping' = FALSE
  /\ requests' = Settle(r)
  /\ UNCHANGED <<isOpen, currentMessage, sessionId>>
  /\ Called("sendMessageResume", s)

----------------------------------------------------------------------------
\* clearChat

clearChat ==
  /\ WithinBounds(1)
  /\ requests' = Issue([url |-> "/api/chat/clear"])
  /\ UNCHANGED <<isOpen, currentMessage, isTyping, messages, messageIdCounter, sessionId>>
  /\ Called("clearChat", Sync)

\* mutation: the fresh greeting takes the id the counter is reset to
clearedMessages_IdTwo == <<[id |-> 2, type |-> "bot", text |-> ClearedText]>>

\* the log a successful clear installs
clearedMessages == <<[id |-> 1, type |-> "bot", text |-> ClearedText]>>

\* the message of the catch block of clearChat
clearErrorMessage == [id |-> messageIdCounter, type |-> "bot", text |-> ClearErrorText]

\* mutation: a successful clear resets the log but not the id counter
clearChatResume_KeepsCounter(r, s) ==
  /\ r.url = "/api/chat/clear"
  /\ IF s.settled = "resolved"
       THEN /\ messages' = clearedMessages
            /\ UNCHANGED messageIdCounter
       ELSE /\ messageIdCounter' = messageIdCounter + 1
            /\ messages' = Append(messages, clearErrorMessage)
  /\ requests' = Settle(r)
  /\ UNCHANGED <<isOpen, currentMessage, isTyping, sessionId>>
  /\ Called("clearChatResume", s)

\* mutation: the local reset runs whether or not the call succeeded, and a
\* failure then appends its error message to the fresh log
clearChatResume_ResetsOnFailure(r, s) ==
  /\ r.url = "/api/chat/clear"
  /\ IF s.settled = "resolved"
       THEN /\ messages' = clearedMessages
            /\ messageIdCounter' = 2
       ELSE /\ messageIdCounter' = 3
            /\ messages' = Append(clearedMessages,
                  [id |-> 2, type |-> "bot", text |-> ClearErrorText])
  /\ requests' = Settle(r)
  /\ UNCHANGED <<isOpen, currentMessage, isTyping, sessionId>>
  /\ Called("clearChatResume", s)

\* mutation: a successful clear starts a new session
clearChatResume_NewSession(r, s) ==
  /\ r.url = "/api/chat/clear"
  /\ IF s.settled = "resolved"
       THEN /\ messages' = clearedMessages
            /\ messageIdCounter' = 2
            /\ sessionId' = "session_2"
       ELSE /\ messageIdCounter' = messageIdCounter + 1
            /\ messages' = Append(messages, clearErrorMessage)
            /\ UNCHANGED sessionId
  /\ requests' = Settle(r)
  /\ UNCHANGED <<isOpen, currentMessage, isTyping>>
  /\ Called("clearChatResume", s)

\* mutation: a successful clear also lowers the typing flag
clearChatResume_LowersTyping(r, s) ==
  /\ r.url = "/api/chat/clear"
  /\ IF s.settled = "resolved"
       THEN /\ messages' = clearedMessages
            /\ messageIdCounter' = 2
            /\ isTyping' = FALSE
       ELSE /\ messageIdCounter' = messageIdCounter + 1
            /\ messages' = Append(messages, clearErrorMessage)
            /\ UNCHANGED isTyping
  /\ requests' = Settle(r)
  /\ UNCHANGED <<isOpen, currentMessage, sessionId>>
  /\ Called("clearChatResume", s)

clearChatResume(r, s) ==
  /\ r.url = "/api/chat/clear"
  /\ IF s.settled = "resolved"
       THEN /\ messages' = clearedMessages
            /\ messageIdCounter' = 2
       ELSE /\ messageIdCounter' = messageIdCounter + 1
            /\ messages' = Append(messages, clearErrorMessage)
  /\ requests' = Settle(r)
  /\ UNCHANGED <<isOpen, currentMessage, isTyping, sessionId>>
  /\ Called("clearChatResume", s)

----------------------------------------------------------------------------
\* loadChatContext after its await

contextMessage == [id |-> messageIdCounter, type |-> "bot", text |-> ContextText]

\* mutation: the summary is appended without looking at the length of the log
loadChatContextResume_NoLengthCheck(r, s) ==
  /\ r.url = "/api/chat/context"
  /\ IF s.settled = "resolved" /\ s.status = "success" /\ s.tables > 0
       THEN /\ messageIdCounter' = messageIdCounter + 1
            /\ messages' = Append(messages, contextMessage)
       ELSE UNCHANGED <<messages, messageIdCounter>>
  /\ requests' = Settle(r)
  /\ UNCHANGED <<isOpen, currentMessage, isTyping, sessionId>>
  /\ Called("loadChatContextResume", s)

\* mutation: a failed fetch is reported in the log like a failed clear
loadChatContextResume_ShowsError(r, s) ==
  /\ r.url = "/api/chat/context"
  /\ IF s.settled = "resolved" /\ s.status = "success" /\ s.tables > 0
       THEN /\ messageIdCounter' = messageIdCounter + 1
            /\ messages' = IF Len(messages) = 1
                             THEN Append(messages, contextMessage)
                             ELSE messages
       ELSE IF s.settled = "rejected"
         THEN /\ messageIdCounter' = messageIdCounter + 1
              /\ messages' = Append(messages, errorMessage(s))
         ELSE UNCHANGED <<messages, messageIdCounter>>
  /\ requests' = Settle(r)
  /\ UNCHANGED <<isOpen, currentMessage, isTyping, sessionId>>
  /\ Called("loadChatContextResume", s)

loadChatContextResume(r, s) ==
  /\ r.url = "/api/chat/context"
  /\ IF s.settled = "resolved" /\ s.status = "success" /\ s.tables > 0
       THEN /\ messageIdCounter' = messageIdCounter + 1
            /\ messages' = IF Len(messages) = 1
                             THEN Append(messages, contextMessage)
                             ELSE messages
       ELSE UNCHANGED <<messages, messageIdCounter>>
  /\ requests' = Settle(r)
  /\ UNCHANGED <<isOpen, currentMessage, isTyping, sessionId>>
  /\ Called("loadChatContextResume", s)

----------------------------------------------------------------------------
\* The component

UserInput == \E s \in Inputs : handleInput(s)

SendSettles ==
  \E r \in BagToSet(requests) : \E s \in ChatSettlements : sendMessageResume(r, s)

ClearSettles ==
  \E r \in BagToSet(requests) : \E s \in ClearSettlements : clearChatResume(r, s)

ContextSettles ==
  \E r \in BagToSet(requests) : \E s \in ContextSettlements : loadChatContextResume(r, s)

Next ==
  \/ UserInput
  \/ ClickToggle
  \/ KeydownEscape
  \/ sendMessage
  \/ clearChat
  \/ SendSettles
  \/ ClearSettles
  \/ ContextSettles

Spec == Init /\ [][Next]_vars

\* axios bounds every call by a response, an error or its timeout, so every
\* request in flight settles
FairSpec ==
  /\ Spec
  /\ WF_vars(SendSettles)
  /\ WF_vars(ClearSettles)
  /\ WF_vars(ContextSettles)

TypeOK ==
  /\ isOpen \in BOOLEAN
  /\ currentMessage \in Inputs
  /\ isTyping \in BOOLEAN
  /\ messageIdCounter \in 2..MaxId
  /\ sessionId \in SessionIds
  /\ BagCardinality(requests) <= MaxPending
  /\ messageIdCounter + BagCardinality(requests) <= MaxId

----------------------------------------------------------------------------
\* Notions used by the properties

\* the requests in flight to the given path
InFlight(url) == {r \in BagToSet(requests) : r.url = url}

\* a text that is empty or holds only whitespace
Blank(s) == \A i \in 1..Len(s) : s[i] = " "

\* the last message of the log
LastMessage == messages[Len(messages)]

ResetGreeting == [id |-> 1, type |-> "bot", text |-> ClearedText]

\* the log since the last successful clear: it starts with the reset greeting
AfterClear == messages[1].text = ClearedText

\* the positions of the user messages in the log
UserAt == {i \in 1..Len(messages) : messages[i].type = "user"}

\* the failure kind a message of the catch block of sendMessage shows
ShownKind(m) ==
  IF Len(m.text) < 2 \/ m.text[1] # SorryPrefix[1] THEN "none"
  ELSE IF m.text[2] = CannotConnectText[1] THEN "ServiceUnavailable"
  ELSE IF m.text[2] = "Server error:" THEN "ServerError"
  ELSE IF m.text[2] = NoResponseText[1] THEN "NoResponse"
  ELSE IF m.text[2] = "Request error:" THEN "RequestError"
  ELSE "none"

\* the settlement recorded in c is a failed send: the call was rejected, or
\* it resolved with a payload whose status is not "success"
FailedSend(c) == c.settled = "rejected" \/ c.status # "success"

\* the context summaries in the log
SummaryAt == {i \in 1..Len(messages) : messages[i].text = ContextText}

----------------------------------------------------------------------------
\* C1: a sendMessage call made while isTyping is true is dropped: it appends
\* no message, does not advance the id counter and issues no request (nor
\* does it queue the text: the input and the typing flag stay as they are).
C1_BusyCallsDropped ==
  [][(isTyping /\ lastCall'.op = "sendMessage")
       => UNCHANGED <<messages, messageIdCounter, requests, currentMessage, isTyping>>]_vars

\* a sendMessage call with a non-empty text was made while a send was in flight
C1_Witness ==
  /\ lastCall.op = "sendMessage"
  /\ isTyping
  /\ trim(currentMessage) # <<>>
  /\ InFlight("/api/chat") # {}

\* C2 as claimed: at most one request of any kind (send, clear history, fetch
\* context) is in flight.
C2_AtMostOneRequest == BagCardinality(requests) <= 1

\* C2, amended: at most one send request is in flight; clear-history and
\* context requests are not held back by the typing flag.
C2_AtMostOneSend ==
  /\ Cardinality(InFlight("/api/chat")) <= 1
  /\ \A r \in InFlight("/api/chat") : CopiesIn(r, requests) = 1

\* a send is in flight together with a clear and a context request
C2_Witness ==
  /\ Cardinality(InFlight("/api/chat")) = 1
  /\ InFlight("/api/chat/clear") # {}
  /\ InFlight("/api/chat/context") # {}
  /\ BagCardinality(requests) = 3

\* C3: a sendMessage call with an empty or whitespace-only input changes
\* neither the log, the id counter, the typing flag nor the requests in flight.
C3_BlankIsNoOp ==
  [][(Blank(currentMessage) /\ lastCall'.op = "sendMessage")
       => UNCHANGED <<messages, messageIdCounter, isTyping, requests>>]_vars

\* sendMessage was called, while idle, with a text of whitespace only
C3_Witness ==
  /\ lastCall.op = "sendMessage"
  /\ ~isTyping
  /\ currentMessage # <<>>
  /\ Blank(currentMessage)

\* C4: whenever the typing flag is raised it is lowered again, given that
\* every request in flight settles.
C4_BusyEnds == isTyping ~> ~isTyping

\* a send settled with a failure and the typing flag is down
C4_Witness ==
  /\ lastCall.op = "sendMessageResume"
  /\ lastCall.settled = "rejected"
  /\ ~isTyping

\* C5: the step in which a successful clearChat resumes leaves exactly the
\* reset greeting with id 1 in the log and the id counter at 2.
C5_ClearResets ==
  [][(lastCall'.op = "clearChatResume" /\ lastCall'.settled = "resolved")
       => (messages' = <<ResetGreeting>> /\ messageIdCounter' = 2)]_vars

\* a clear succeeded on a longer log while a send was still in flight
C5_Witness ==
  /\ lastCall.op = "clearChatResume"
  /\ lastCall.settled = "resolved"
  /\ messages = <<ResetGreeting>>
  /\ isTyping
  /\ InFlight("/api/chat") # {}

\* C6 as claimed: the first user message appended after a successful clear
\* has id 2.
C6_NextUserMessageGetsId2 ==
  AfterClear => \A i \in UserAt : (\A j \in UserAt : i <= j) => messages[i].id = 2

\* C6, amended: after a successful clear the id counter is 2, so the next
\* message appended, of whatever kind, has id 2 and every later one a larger
\* id: the next user message has id 2 exactly when nothing else (the reply or
\* error of a send in flight, a clear error, a context summary) was appended
\* before it.
C6_NextMessageGetsId2 ==
  AfterClear =>
    /\ Len(messages) = 1 => messageIdCounter = 2
    /\ \A i \in 2..Len(messages) : (messages[i].id = 2) <=> (i = 2)

\* after a successful clear a user message was appended first, with id 2
C6_Witness ==
  /\ AfterClear
  /\ Len(messages) >= 2
  /\ messages[2].type = "user"
  /\ messages[2].id = 2

\* C7: the step in which a failed clearChat resumes appends one error
\* message to the log as it was, with the next id, and leaves the typing
\* flag alone.
C7_FailedClearAppends ==
  [][(lastCall'.op = "clearChatResume" /\ lastCall'.settled = "rejected")
       => /\ messages' = Append(messages,
                 [id |-> messageIdCounter, type |-> "bot", text |-> ClearErrorText])
          /\ messageIdCounter' = messageIdCounter + 1
          /\ isTyping' = isTyping]_vars

\* a clear failed on a log of several messages, which are all still there
C7_Witness ==
  /\ lastCall.op = "clearChatResume"
  /\ lastCall.settled = "rejected"
  /\ Len(messages) >= 3
  /\ messages[2].type = "user"
  /\ LastMessage.text = ClearErrorText

\* C8: the step in which a send resumes appends exactly one bot message,
\* with the next id, and lowers the typing flag; after a failure of any
\* kind that message is the error message of the catch block.
C8_OneReplyPerSend ==
  [][(lastCall'.op = "sendMessageResume")
       => /\ messages' = Append(messages, LastMessage')
          /\ LastMessage'.type = "bot"
          /\ LastMessage'.id = messageIdCounter
          /\ ~isTyping'
          /\ FailedSend(lastCall') <=> ShownKind(LastMessage') # "none"]_vars

\* a send failed and its error message is the last of the log
C8_Witness ==
  /\ lastCall.op = "sendMessageResume"
  /\ lastCall.settled = "rejected"
  /\ ShownKind(LastMessage) = "RequestError"
  /\ messages[Len(messages) - 1].type = "user"

\* C9 as claimed: a send that resolved with a payload whose status is not
\* "success" is shown as a ServerError.
C9_StatusFailureIsServerError ==
  (/\ lastCall.op = "sendMessageResume"
   /\ lastCall.settled = "resolved"
   /\ lastCall.status # "success")
    => ShownKind(LastMessage) = "ServerError"

\* C10: the log holds at most one context summary, right after the greeting,
\* and a context fetch changes the log only by appending the summary to a log
\* of one message.
C10_OneSummary ==
  /\ [](Cardinality(SummaryAt) <= 1 /\ SummaryAt \subseteq {2})
  /\ [][(lastCall'.op = "loadChatContextResume" /\ messages' # messages)
          => /\ Len(messages) = 1
             /\ messages' = Append(messages,
                    [id |-> messageIdCounter, type |-> "bot", text |-> ContextText])]_vars

\* a second context fetch returned tables after the summary was appended:
\* the id counter moved on and the log did not
C10_Witness ==
  /\ lastCall.op = "loadChatContextResume"
  /\ lastCall.status = "success"
  /\ messages = <<Greeting, [id |-> 2, type |-> "bot", text |-> ContextText]>>
  /\ messageIdCounter >= 4

\* the request loadChatContext issues
ContextRequest == [url |-> "/api/chat/context"]

\* the panel was open before and has just been closed, and no clear has
\* succeeded since the component was mounted
ClosedAgain ==
  /\ ~isOpen
  /\ lastCall.op \in {"toggleChat", "keydownEscape"}
  /\ messages[1] = Greeting

\* C11 as claimed: opening the panel again, after it was opened and closed
\* without a clear in between, issues no context fetch.
C11_NoFetchOnReopen ==
  [][(ClosedAgain /\ isOpen') => requests' = requests]_vars

\* C11, amended: a context fetch is issued on every transition from closed
\* to open, the first and every later one, and by no other step.
C11_FetchOnEveryOpen ==
  [][/\ (~isOpen /\ isOpen') => requests' = requests (+) SetToBag({ContextRequest})
     /\ CopiesIn(ContextRequest, requests') > CopiesIn(ContextRequest, requests)
          => (~isOpen /\ isOpen')]_vars

\* the panel was opened a second time while the fetch of the first opening
\* was still in flight
C11_Witness ==
  /\ isOpen
  /\ lastCall.op = "toggleChat"
  /\ CopiesIn(ContextRequest, requests) = 2
  /\ messages[1] = Greeting

\* C12: the step in which a context fetch resumes after a failure (a
\* rejected call, or a payload whose status is not "success") changes
\* neither the log, the id counter, the typing flag nor the panel.
C12_FailedFetchSwallowed ==
  [][(lastCall'.op = "loadChatContextResume" /\ lastCall'.status # "success")
       => UNCHANGED <<messages, messageIdCounter, isTyping, isOpen>>]_vars

\* a context fetch was rejected while the panel was open on the fresh log
C12_Witness ==
  /\ lastCall.op = "loadChatContextResume"
  /\ lastCall.settled = "rejected"
  /\ isOpen
  /\ messages = <<Greeting>>
  /\ messageIdCounter = 2

\* C13 as claimed: a sendMessage call made while the panel is closed appends
\* no message and issues no request.
C13_ClosedSendRejected ==
  [][(lastCall'.op = "sendMessage" /\ ~isOpen) => UNCHANGED <<messages, requests>>]_vars

\* C13, amended: sendMessage does not look at the panel: open or closed, the
\* call is a no-op exactly when the input is blank or the typing flag is up,
\* and otherwise appends the user message and issues the request.
C13_SendIgnoresPanel ==
  [][(lastCall'.op = "sendMessage")
       => /\ UNCHANGED <<messages, requests>> <=> (Blank(currentMessage) \/ isTyping)
          /\ isOpen' = isOpen]_vars

\* a message was sent while the panel was closed
C13_Witness ==
  /\ lastCall.op = "sendMessage"
  /\ ~isOpen
  /\ isTyping
  /\ LastMessage.type = "user"
  /\ InFlight("/api/chat") # {}

\* C14: closing the panel leaves the requests in flight and the typing flag
\* alone, and a send that resumes while the panel is closed still appends
\* its bot message and lowers the typing flag, the panel staying closed.
C14_CloseKeepsSend ==
  /\ [][(isOpen /\ ~isOpen') => UNCHANGED <<requests, isTyping, messages>>]_vars
  /\ [][(lastCall'.op = "sendMessageResume" /\ ~isOpen)
          => /\ messages' = Append(messages, LastMessage')
             /\ LastMessage'.type = "bot"
             /\ ~isTyping'
             /\ ~isOpen']_vars

\* a send issued with the panel open resumed after the panel was closed
C14_Witness ==
  /\ lastCall.op = "sendMessageResume"
  /\ ~isOpen
  /\ ~isTyping
  /\ Len(messages) >= 3
  /\ messages[Len(messages) - 1].type = "user"
  /\ LastMessage.type = "bot"

\* C15: the session id never changes, and every send request in flight
\* carries it.
C15_SessionIdFixed ==
  /\ [][sessionId' = sessionId]_vars
  /\ [](\A r \in InFlight("/api/chat") : r.session_id = sessionId)

\* a message was sent after a successful clear
C15_Witness ==
  /\ AfterClear
  /\ UserAt # {}
  /\ InFlight("/api/chat") # {}
  /\ lastCall.op = "sendMessage"

\* the positions of the bot messages a send appended: its reply or its error
SendBotAt ==
  {i \in 1..Len(messages) :
     /\ messages[i].type = "bot"
     /\ messages[i].text \notin {GreetingText, ClearedText, ClearErrorText, ContextText}}

\* C16: the typing flag is up exactly while a send request is in flight; it
\* is raised by the step that appends the user message and issues the
\* request, and only sendMessage and its continuation ever change it.
C16_TypingWhileSending ==
  /\ [](isTyping <=> InFlight("/api/chat") # {})
  /\ [][(isTyping' # isTyping)
          => lastCall'.op \in {"sendMessage", "sendMessageResume"}]_vars
  /\ [][(~isTyping /\ isTyping')
          => /\ messages' = Append(messages, LastMessage')
             /\ LastMessage'.type = "user"
             /\ BagCardinality(requests') = BagCardinality(requests) + 1]_vars

\* a context fetch resumed, with the panel closed, while a send was in
\* flight: the flag is still up
C16_Witness ==
  /\ isTyping
  /\ lastCall.op = "loadChatContextResume"
  /\ ~isOpen
  /\ InFlight("/api/chat") # {}

\* C17: the step of sendMessage that issues the request has, in one, appended
\* the user message with the trimmed text the request carries, emptied the
\* input and raised the typing flag; the bot message of the send is appended
\* by a later step, which settles a request that was in flight.
C17_UserMessageFirst ==
  /\ [][(lastCall'.op = "sendMessage" /\ requests' # requests)
          => /\ messages' = Append(messages, LastMessage')
             /\ LastMessage'.type = "user"
             /\ LastMessage'.text = trim(currentMessage)
             /\ requests' = requests (+) SetToBag({[url |-> "/api/chat",
                    message |-> LastMessage'.text, session_id |-> sessionId]})
             /\ currentMessage' = <<>>
             /\ isTyping']_vars
  /\ [][(lastCall'.op = "sendMessageResume")
          => /\ isTyping
             /\ \E r \in InFlight("/api/chat") : requests' = requests (-) SetToBag({r})
             /\ messages' = Append(messages, LastMessage')
             /\ LastMessage'.type = "bot"]_vars

\* the request is in flight: the user message is the last of the log and
\* the input is empty
C17_Witness ==
  /\ lastCall.op = "sendMessage"
  /\ isTyping
  /\ currentMessage = <<>>
  /\ LastMessage.type = "user"
  /\ \E r \in InFlight("/api/chat") : r.message = LastMessage.text
  /\ LastMessage.text = <<"a", " ", "a">>

\* C18: the ids of the log increase strictly from one message to the next
\* and the id counter is larger than all of them.
C18_IdsIncrease ==
  /\ \A i, j \in 1..Len(messages) : i < j => messages[i].id < messages[j].id
  /\ \A i \in 1..Len(messages) : messages[i].id < messageIdCounter

\* a clear succeeded while a send was in flight, and the reply of that send
\* then took id 2
C18_Witness ==
  /\ AfterClear
  /\ lastCall.op = "sendMessageResume"
  /\ Len(messages) = 2
  /\ messages[2].id = 2
  /\ messageIdCounter = 3

\* C19: every step leaves the log as it is, appends one message to it, or,
\* when a successful clear resumes, replaces it by the reset greeting.
C19_AppendOnly ==
  [][\/ messages' = messages
     \/ /\ Len(messages') = Len(messages) + 1
        /\ SubSeq(messages', 1, Len(messages)) = messages
     \/ /\ lastCall'.op = "clearChatResume"
        /\ lastCall'.settled = "resolved"
        /\ messages' = <<ResetGreeting>>]_vars

\* the log grew to four messages by appends
C19_Witness ==
  /\ Len(messages) = 4
  /\ messages[1] = Greeting
  /\ messages[2].type = "user"
  /\ messages[3].type = "bot"

\* C20 as claimed: every bot message of a send in the log has the user
\* message of its send before it: up to any such message the log holds at
\* least as many user messages as bot messages of sends.
C20_ReplyAfterItsQuestion ==
  \A i \in SendBotAt :
    Cardinality({j \in UserAt : j < i}) >= Cardinality({j \in SendBotAt : j <= i})

====
